---- MODULE Spec2Model ----
(***************************************************************************)
(* aqoo: provisioning of a key-authenticated user on a remote host.        *)
(* The model follows setupVPS (setup.js), setupVPSUser,                    *)
(* testNewUserConnection, createSSHConnection, executeSSHCommand           *)
(* (sshOperations.js), saveVPSHost (database.js) and the menu loop of      *)
(* index.js.  Text that the code inspects (user names, command output) is  *)
(* a sequence of one-character strings.                                    *)
(***************************************************************************)
EXTENDS Integers, Sequences, FiniteSets, TLC

VARIABLES
    pc,           \* position of the single flow of control
    idx,          \* index into the command list of the current loop
    inflight,     \* TRUE while an executeSSHCommand promise is pending
    runs,         \* number of menu operations started so far
    ret,          \* how the last menu operation returned
    sshHosts,     \* what parseSSHConfig returns (the configuration file)
    files,        \* private-key files present on the local disk
    remoteUsers,  \* accounts present on the remote host
    db,           \* vps_hosts rows, by name
    selectedHost, \* answers of the prompts
    hostName,
    username,
    provConn,     \* session opened by setupVPS
    testConn,     \* session opened by testNewUserConnection
    leaked,       \* sessions of finished operations that were never ended
    conns,        \* connection attempts of this run (conn.connect calls)
    log,          \* commands given to conn.exec in this run
    checkUser,    \* stdout of the probe command
    whoami,       \* stdout of the confirmation command
    results,      \* how useradd, the key installation and the verification went
    privFails,    \* number of privilege commands that failed
    reports,      \* showSuccess / showError calls of this run past the prompt
    saved,        \* a vps_hosts row was inserted by this run
    connLog,      \* connection_logs rows inserted by the current operation
    keyPair,      \* generateSSHKeyPair of this run: outcome, modes of the files
    authOp,       \* remoteAuth: the chosen host and action, and its session
    cfgFile,      \* ~/.ssh/config as one parseSSHConfig call finds it
    parsed,       \* what that parseSSHConfig call returned
    chan          \* one executeSSHCommand call: its channel and its promise

vars == <<pc, idx, inflight, runs, ret, sshHosts, files, remoteUsers, db,
          selectedHost, hostName, username, provConn, testConn, leaked,
          conns, log, checkUser, whoami, results, privFails, reports, saved,
          connLog, keyPair, authOp, cfgFile, parsed, chan>>

\* Bound on the number of operations (setupVPS or remoteAuth) the menu starts.
MaxRuns == 1

Null == "null"

(***************************************************************************)
(* Text helpers                                                            *)
(***************************************************************************)
Lower == {"a","b","c","d","e","f","g","h","i","j","k","l","m",
          "n","o","p","q","r","s","t","u","v","w","x","y","z"}

Digit == {"0","1","2","3","4","5","6","7","8","9"}

Whitespace == {" ", "\n", "\t"}

\* String.prototype.includes
Includes(s, sub) ==
    \E i \in 1..(Len(s) - Len(sub) + 1) : SubSeq(s, i, i + Len(sub) - 1) = sub

RECURSIVE TrimStart(_)
TrimStart(s) ==
    IF s # <<>> /\ Head(s) \in Whitespace THEN TrimStart(Tail(s)) ELSE s

RECURSIVE TrimEnd(_)
TrimEnd(s) ==
    IF s # <<>> /\ s[Len(s)] \in Whitespace
    THEN TrimEnd(SubSeq(s, 1, Len(s) - 1))
    ELSE s

\* String.prototype.trim
Trim(s) == TrimEnd(TrimStart(s))

(***************************************************************************)
(* Inputs                                                                  *)
(***************************************************************************)
AqooAdmin == <<"a","q","o","o","-","a","d","m","i","n">>
NotFoundName == <<"n","o","t","_","f","o","u","n","d">>
Bob == <<"b","o","b">>
RootName == <<"r","o","o","t">>

\* What an operator may type at the username prompt.
UsernameInputs ==
    { AqooAdmin, NotFoundName, Bob,
      <<>>, <<"B","o","b">>, <<"9","a">>, <<"a",";","b">> }

\* What an operator may type at the name prompt (the default of host "web",
\* or nothing).
HostNameInputs == {"web-managed", ""}

\* Local paths: a directory, a file name and, for generated keys, the
\* Date.now() stamp that setupVPS puts in the key name.
NoFile == [dir |-> "", name |-> "", stamp |-> 0]

IdRsa == [dir |-> "~/.ssh", name |-> "id_rsa", stamp |-> 0]

\* Entries as parseSSHConfig builds them.
Hosts ==
    { [host |-> "web", hostname |-> "1.2.3.4", user |-> "root", port |-> 22,
       identityFile |-> IdRsa],
      [host |-> "db", hostname |-> "10.0.0.2", user |-> Null, port |-> 2222,
       identityFile |-> NoFile] }

NoHost == [host |-> Null, hostname |-> Null, user |-> Null, port |-> 0,
           identityFile |-> NoFile]

(***************************************************************************)
(* setupVPS: validation of the prompt answers                              *)
(***************************************************************************)
ValidateHostName(input) == input # ""

\* A validate callback that only rejects the empty answer.
ValidateUsernameNonEmpty(input) == Len(input) # 0

\* /^[a-z_][a-z0-9_-]*$/
ValidateUsername(input) ==
    /\ Len(input) # 0
    /\ input[1] \in Lower \cup {"_"}
    /\ \A i \in 2..Len(input) : input[i] \in Lower \cup Digit \cup {"_", "-"}

(***************************************************************************)
(* Remote command surface                                                  *)
(***************************************************************************)
\* getSystemInfo: Object.entries(commands)
SysInfoCommands == <<"os", "kernel", "uptime", "memory", "cpu", "hostname">>

ProbeCommand == "id"

UseraddCommand == "useradd"

sudoCommands ==
    <<"usermod_sudo", "usermod_wheel", "sudoers_tee", "sudoers_chmod">>

\* The key installation with the write before the directory exists.
sshSetupCommandsSwapped ==
    <<"tee_authorized_keys", "mkdir_ssh", "chown_ssh", "chmod_700", "chmod_600">>

sshSetupCommands ==
    <<"mkdir_ssh", "tee_authorized_keys", "chown_ssh", "chmod_700", "chmod_600">>

VerifyCommand == "ls_authorized_keys"

WhoamiCommand == "whoami"

\* The commands that change the remote host.
MutatingCommands ==
    {UseraddCommand} \cup {sudoCommands[i] : i \in DOMAIN sudoCommands}
                     \cup {sshSetupCommands[i] : i \in DOMAIN sshSetupCommands}

\* What executeSSHCommand settles with: resolve({code, stdout, stderr}) on the
\* channel's close, or reject(err) when conn.exec could not start the command.
Closed(code, out) == [kind |-> "close", code |-> code, stdout |-> out]

ExecError == [kind |-> "error", code |-> 0, stdout |-> <<>>]

Failed(r) == r.kind = "error" \/ r.code # 0

\* The remote `id <name>` prints the name inside its uid/gid/groups fields.
IdOutput(u) ==
    <<"u","i","d","=","1","(">> \o u \o <<")"," ","g","i","d","=","1","(">>
        \o u \o <<")","\n">>

NotFoundMarker == <<"n","o","t","_","f","o","u","n","d">>

\* `id <name> 2>/dev/null || echo "not_found"` on a host with accounts `users`.
ProbeOutput(u, users) ==
    IF u \in users THEN IdOutput(u) ELSE NotFoundMarker \o <<"\n">>

(***************************************************************************)
(* Decisions taken by the code on a command's result                       *)
(***************************************************************************)
\* A probe whose output is never inspected.
UserNotFoundUnchecked(stdout) == TRUE

\* setupVPSUser: checkUser.stdout.includes('not_found')
UserNotFound(stdout) == Includes(stdout, NotFoundMarker)

\* await executeSSHCommand(conn, useradd): the result is not inspected.
UseraddOutcome(r) == IF r.kind = "error" THEN "throw" ELSE "next"

\* The privilege loop without its try/catch.
SudoOutcomeNoCatch(r) == IF r.kind = "error" THEN "throw" ELSE "next"

\* try { await executeSSHCommand(conn, cmd) } catch (err) { }
SudoOutcome(r) == "next"

\* for (const cmd of sshSetupCommands) await executeSSHCommand(conn, cmd)
SshSetupOutcome(r) == IF r.kind = "error" THEN "throw" ELSE "next"

\* A verification whose exit code is not inspected.
VerifyOutcomeIgnoreCode(r) == IF r.kind = "error" THEN "throw" ELSE "next"

\* if (verify.code !== 0) throw
VerifyOutcome(r) ==
    IF r.kind = "error" THEN "throw"
    ELSE IF r.code # 0 THEN "throw" ELSE "next"

\* A comparison that only looks for the name inside the output.
TestResultContains(stdout, name) == Includes(stdout, name)

\* testNewUserConnection: result.stdout.trim() === username
TestResult(stdout, name) == Trim(stdout) = name

\* createSSHConnection without the existsSync test.
KeyCheckNoExists(keyPath, fs) == IF keyPath = NoFile THEN "none" ELSE "key"

\* createSSHConnection: how the session authenticates, or that the key file
\* is missing (setupVPS and testNewUserConnection pass no password).
KeyCheck(keyPath, fs) ==
    IF keyPath = NoFile THEN "none"
    ELSE IF keyPath \notin fs THEN "notfound" ELSE "key"

\* generateSSHKeyPair: privateKeyPath = join(keysDir, keyName), with
\* keyName = `${hostName}-${Date.now()}`.
KeyPathOf(name, stamp) == [dir |-> ".ssh-keys", name |-> name, stamp |-> stamp]

\* vps_hosts.id is AUTOINCREMENT and no row is ever deleted by the menu's
\* operations: the ids in use are 1 .. number of rows.
HostIds(rows) == 1..Cardinality(rows)

\* connection_logs: FOREIGN KEY (vps_host_id) REFERENCES vps_hosts(id),
\* enforced by better-sqlite3 (foreign_keys is on by default).
LogConnectionThrows(vpsHostId, rows) == vpsHostId \notin HostIds(rows)

\* logConnection: the row inserted into connection_logs; errorMessage is
\* null (empty) or the one message.
LogRow(connectionType, success, errorMessage) ==
    [type |-> connectionType, success |-> success, error |-> errorMessage]

\* saveVPSHost: the row inserted into vps_hosts.
HostData(h, name, user, keyPath) ==
    [name |-> name, originalHost |-> h.hostname, originalUser |-> h.user,
     originalPort |-> h.port, managedUser |-> user, managedPort |-> h.port,
     privateKeyPath |-> keyPath]

\* The record an earlier session of the program saved for host "web" under
\* the default name, with its user aqoo-admin.
ManagedWeb ==
    HostData([host |-> "web", hostname |-> "1.2.3.4", user |-> "root",
              port |-> 22, identityFile |-> IdRsa],
             "web-managed", AqooAdmin, KeyPathOf("web-managed", 0))

\* The local files the setups that saved rows left behind: the directory of
\* the generated keys and the private keys.
LeftBy(rows) ==
    {[dir |-> ".ssh-keys", name |-> "", stamp |-> 0] : r \in rows}
    \cup {r.privateKeyPath : r \in rows}

\* vps_hosts: name TEXT NOT NULL UNIQUE, original_user TEXT NOT NULL.
SaveThrows(rows, row) ==
    \/ \E r \in rows : r.name = row.name
    \/ row.originalUser = Null

\* setupVPSUser's catch: throw new Error(`VPS setup failed: ${error.message}`)
Wrap(msg) == <<"VPS setup failed: ">> \o msg

\* A catch block that swallows the error without reporting it.
CatchReportsSilent(msg) == <<>>

\* setupVPS's catch: showError(`Setup Error: ${error.message}`)
CatchReports(msg) == <<[kind |-> "error", msg |-> <<"Setup Error: ">> \o msg]>>

\* A catch block that deletes the half-provisioned user again.
CatchCommandsRollback ==
    <<[sess |-> "prov", cmd |-> "userdel", arg |-> username]>>

\* The remote commands issued by the catch blocks of setupVPSUser and
\* setupVPS: none.
CatchCommands == <<>>

\* setupVPS: showSuccess(`VPS Setup Completed! ...`)
SuccessReports == <<[kind |-> "success", msg |-> <<"VPS Setup Completed!">>]>>

\* A provisioning session that is not ended before the confirmation login.
EndSessionForgotten(c) == c

\* setupVPS: conn.end() after setupVPSUser returned.
EndSession(c) == "ended"

OpenCount(p, t) == (IF p = "open" THEN 1 ELSE 0) + (IF t = "open" THEN 1 ELSE 0)

NoFail == [cmd |-> "none", how |-> "none"]

\* History of the run: the result of useradd, the first key-installation
\* command that failed, the result of the verification command.
NoResults == [useradd |-> "none", install |-> NoFail, verify |-> "none"]

\* No generateSSHKeyPair call in this run yet: no key file of this run.
NoKeyPair == [outcome |-> "none", priv |-> "none", pub |-> "none"]

\* remoteAuth is not running.
NoAuth == [host |-> "", id |-> 0, action |-> "none", sess |-> "none"]

How(r) == IF r.kind = "error" THEN "execerr"
          ELSE IF r.code # 0 THEN "nonzero" ELSE "ok"

\* No parseSSHConfig call and no executeSSHCommand call is being followed.
NoConfig == [state |-> "none", lines |-> <<>>]

NoCall == [outcome |-> "none", hosts |-> <<>>]

NoChannel ==
    [phase |-> "idle", stdout |-> <<>>, stderr |-> <<>>, rawOut |-> <<>>,
     rawErr |-> <<>>, settled |-> <<>>]

(***************************************************************************)
(* Initial state: the process has started and shows the main menu          *)
(***************************************************************************)
InitMain ==
    /\ pc = "menu"
    /\ idx = 0
    /\ inflight = FALSE
    /\ runs = 0
    /\ ret = "none"
    /\ sshHosts \in {{}, Hosts}
    /\ \E earlier \in {{}, {ManagedWeb}} :
           /\ db = earlier
           /\ files \in {LeftBy(earlier), {IdRsa} \cup LeftBy(earlier)}
           /\ remoteUsers \in
                  {{RootName} \cup {r.managedUser : r \in earlier},
                   {RootName, Bob, NotFoundName}
                       \cup {r.managedUser : r \in earlier}}
    /\ selectedHost = NoHost
    /\ hostName = ""
    /\ username = <<>>
    /\ provConn = "none"
    /\ testConn = "none"
    /\ leaked = 0
    /\ conns = <<>>
    /\ log = <<>>
    /\ checkUser = <<>>
    /\ whoami = <<>>
    /\ results = NoResults
    /\ privFails = 0
    /\ reports = <<>>
    /\ saved = FALSE
    /\ connLog = <<>>
    /\ keyPair = NoKeyPair
    /\ authOp = NoAuth

Init ==
    /\ InitMain
    /\ cfgFile = NoConfig
    /\ parsed = NoCall
    /\ chan = NoChannel

mainVars ==
    <<pc, idx, inflight, runs, ret, sshHosts, files, remoteUsers, db,
      selectedHost, hostName, username, provConn, testConn, leaked, conns,
      log, checkUser, whoami, results, privFails, reports, saved,
      connLog, keyPair, authOp>>

envVars == <<sshHosts, files, remoteUsers, db>>
sideVars == <<cfgFile, parsed, chan>>
opVars == <<connLog, keyPair, authOp>>
answerVars == <<selectedHost, hostName, username>>
connVars == <<provConn, testConn, leaked, conns>>
histVars == <<checkUser, whoami, results, privFails, saved>>

(***************************************************************************)
(* index.js: the menu loop, and setupVPS up to the confirmation prompt     *)
(***************************************************************************)
\* case 'setup': await setupVPS() -- parseSSHConfig, and the early return
\* when it finds no host.
MenuSetup ==
    /\ pc = "menu"
    /\ runs < MaxRuns
    /\ runs' = runs + 1
    /\ idx' = 0
    /\ inflight' = FALSE
    /\ selectedHost' = NoHost
    /\ hostName' = ""
    /\ username' = <<>>
    /\ leaked' = leaked + OpenCount(provConn, testConn)
    /\ provConn' = "none"
    /\ testConn' = "none"
    /\ conns' = <<>>
    /\ log' = <<>>
    /\ checkUser' = <<>>
    /\ whoami' = <<>>
    /\ results' = NoResults
    /\ privFails' = 0
    /\ saved' = FALSE
    /\ IF sshHosts = {}
       THEN /\ reports' = <<[kind |-> "error", msg |-> <<"No SSH hosts found">>]>>
            /\ ret' = "nohosts"
            /\ pc' = "menu"
       ELSE /\ reports' = <<>>
            /\ ret' = "none"
            /\ pc' = "select"
    /\ UNCHANGED envVars
    /\ connLog' = <<>>
    /\ keyPair' = NoKeyPair
    /\ authOp' = NoAuth
    /\ UNCHANGED sideVars

\* case 'exit': running = false
MenuExit ==
    /\ pc = "menu"
    /\ pc' = "exited"
    /\ UNCHANGED <<idx, inflight, runs, ret, envVars, answerVars, connVars,
                   log, histVars, reports>>
    /\ UNCHANGED <<sideVars, opVars>>

\* The host, name, username and notes prompts; inquirer asks again until the
\* validate functions accept the input.
PromptDetails(h, n, u) ==
    /\ pc = "select"
    /\ h \in sshHosts
    /\ ValidateHostName(n)
    /\ ValidateUsername(u)
    /\ selectedHost' = h
    /\ hostName' = n
    /\ username' = u
    /\ pc' = "confirm"
    /\ UNCHANGED <<idx, inflight, runs, ret, envVars, connVars, log, histVars,
                   reports>>
    /\ UNCHANGED <<sideVars, opVars>>

\* if (!confirm) return
ConfirmSetup(yes) ==
    /\ pc = "confirm"
    /\ IF yes
       THEN pc' = "connect" /\ ret' = "none"
       ELSE pc' = "menu" /\ ret' = "cancelled"
    /\ UNCHANGED <<idx, inflight, runs, envVars, answerVars, connVars, log,
                   histVars, reports>>
    /\ UNCHANGED <<sideVars, opVars>>

(***************************************************************************)
(* setupVPS: the inner try block                                           *)
(***************************************************************************)
\* The catch block of setupVPS: one showError, then back to the menu loop.
\* The sessions are left as they are.
Throw(msg) ==
    /\ reports' = reports \o CatchReports(msg)
    /\ log' = log \o CatchCommands
    /\ connLog' = IF LogConnectionThrows(0, db) THEN connLog
                  ELSE Append(connLog, LogRow("setup", FALSE, <<msg>>))
    /\ pc' = "menu"
    /\ ret' = "done"
    /\ inflight' = FALSE

\* createSSHConnection called by setupVPS with the selected host's user and
\* identity file: the key check, then conn.connect.
ProvConnectStart ==
    /\ pc = "connect"
    /\ LET auth == KeyCheck(selectedHost.identityFile, files) IN
       IF auth = "notfound"
       THEN /\ Throw(<<"Private key not found at: ",
                      selectedHost.identityFile.name>>)
            /\ UNCHANGED <<provConn, conns>>
       ELSE /\ conns' = Append(conns,
                   [sess |-> "prov", host |-> selectedHost.hostname,
                    port |-> selectedHost.port, user |-> selectedHost.user,
                    key |-> selectedHost.identityFile])
            /\ provConn' = "connecting"
            /\ pc' = "connecting"
            /\ UNCHANGED <<reports, ret, inflight, log, connLog>>
    /\ UNCHANGED <<idx, runs, envVars, answerVars, testConn, leaked, histVars>>
    /\ UNCHANGED <<sideVars, keyPair, authOp>>

\* conn.on('ready', () => resolve(conn))
ProvConnectReady ==
    /\ pc = "connecting"
    /\ provConn' = "open"
    /\ pc' = "sysinfo"
    /\ idx' = 1
    /\ UNCHANGED <<inflight, runs, ret, envVars, answerVars, testConn, leaked,
                   conns, log, histVars, reports>>
    /\ UNCHANGED <<sideVars, opVars>>

\* conn.on('error', reject)
ProvConnectError ==
    /\ pc = "connecting"
    /\ provConn' = "failed"
    /\ Throw(<<"connect error">>)
    /\ UNCHANGED <<idx, runs, envVars, answerVars, testConn, leaked, conns,
                   histVars>>
    /\ UNCHANGED <<sideVars, keyPair, authOp>>

\* Call sites without the confirmation command: nothing is executed on the
\* confirmation session.
CommandStepsNoWhoami ==
    {"sysinfo", "probe", "useradd", "sudo", "sshsetup", "verify"}

CommandSteps ==
    {"sysinfo", "probe", "useradd", "sudo", "sshsetup", "verify", "whoami"}

\* The command the flow of control is about to execute.
CurrentCommand ==
    CASE pc = "sysinfo" -> SysInfoCommands[idx]
      [] pc = "probe" -> ProbeCommand
      [] pc = "useradd" -> UseraddCommand
      [] pc = "sudo" -> sudoCommands[idx]
      [] pc = "sshsetup" -> sshSetupCommands[idx]
      [] pc = "verify" -> VerifyCommand
      [] pc = "whoami" -> WhoamiCommand

\* executeSSHCommand: conn.exec(command, ...) on the session of the step.
\* The name interpolated into the command is kept with it.
ExecIssue ==
    /\ pc \in CommandSteps
    /\ ~inflight
    /\ inflight' = TRUE
    /\ log' = Append(log,
           [sess |-> IF pc = "whoami" THEN "test" ELSE "prov",
            cmd |-> CurrentCommand,
            arg |-> IF pc \in {"sysinfo", "whoami"} THEN <<>> ELSE username])
    /\ UNCHANGED <<pc, idx, runs, ret, envVars, answerVars, connVars, histVars,
                   reports>>
    /\ UNCHANGED <<sideVars, opVars>>

\* What a command other than the probe and whoami can settle with.
PlainResults == {Closed(0, <<>>), Closed(1, <<>>), ExecError}

\* getSystemInfo: each command in its own try/catch; then generateSSHKeyPair
\* is reached.
SysInfoResult(r) ==
    /\ pc = "sysinfo"
    /\ inflight
    /\ r \in PlainResults
    /\ inflight' = FALSE
    /\ IF idx < Len(SysInfoCommands)
       THEN idx' = idx + 1 /\ pc' = pc
       ELSE idx' = 0 /\ pc' = "keygen"
    /\ UNCHANGED <<runs, ret, envVars, answerVars, connVars, log, histVars,
                   reports>>
    /\ UNCHANGED <<sideVars, opVars>>

\* The directory of the generated keys: join(__dirname, '..', '.ssh-keys').
KeysDir == [dir |-> ".ssh-keys", name |-> "", stamp |-> 0]

\* How one generateSSHKeyPair call may go: it returns, or mkdirSync,
\* execSync(ssh-keygen), chmodSync of the private key or readFileSync of
\* the public key throws.
KeygenOutcomes == {"ok", "mkdir", "ssh-keygen", "chmod", "read"}

\* chmodSync(privateKeyPath, 0o644)
PrivateKeyModeLoose == "644"

\* chmodSync(privateKeyPath, 0o600)
PrivateKeyMode == "600"

\* chmodSync(publicKeyPath, 0o644)
PublicKeyMode == "644"

\* The files of the pair and their modes after the call: none when
\* ssh-keygen did not run or failed, as ssh-keygen made them when the first
\* chmodSync threw, as chmodSync set them otherwise.
KeyFiles(outcome) ==
    IF outcome \in {"mkdir", "ssh-keygen"}
    THEN [outcome |-> outcome, priv |-> "none", pub |-> "none"]
    ELSE IF outcome = "chmod"
    THEN [outcome |-> outcome, priv |-> "created", pub |-> "created"]
    ELSE [outcome |-> outcome, priv |-> PrivateKeyMode, pub |-> PublicKeyMode]

\* The message of the error generateSSHKeyPair throws: mkdirSync is called
\* before the try block, the other calls inside it.
KeygenError(outcome) ==
    IF outcome = "mkdir" THEN <<"EACCES: permission denied, mkdir">>
    ELSE <<"Failed to generate SSH key: ", outcome>>

\* generateSSHKeyPair(`${hostName}-${Date.now()}`)
Keygen(outcome) ==
    /\ pc = "keygen"
    /\ outcome \in KeygenOutcomes
    /\ outcome = "mkdir" => KeysDir \notin files
    /\ keyPair' = KeyFiles(outcome)
    /\ files' = files
                 \cup (IF outcome = "mkdir" THEN {} ELSE {KeysDir})
                 \cup (IF KeyFiles(outcome).priv = "none" THEN {}
                       ELSE {KeyPathOf(hostName, runs)})
    /\ IF outcome = "ok"
       THEN /\ pc' = "probe"
            /\ UNCHANGED <<reports, ret, inflight, log, connLog>>
       ELSE Throw(KeygenError(outcome))
    /\ UNCHANGED <<idx, runs, sshHosts, remoteUsers, db, answerVars, connVars,
                   histVars>>
    /\ UNCHANGED <<sideVars, authOp>>

(***************************************************************************)
(* setupVPSUser                                                            *)
(***************************************************************************)
\* The probe: `id ${username} 2>/dev/null || echo "not_found"`.
ProbeResult(r) ==
    /\ pc = "probe"
    /\ inflight
    /\ r \in {Closed(0, ProbeOutput(username, remoteUsers)), ExecError}
    /\ IF r.kind = "error"
       THEN /\ Throw(Wrap(<<"exec error">>))
            /\ UNCHANGED checkUser
       ELSE /\ checkUser' = <<r.stdout>>
            /\ IF ~UserNotFound(r.stdout)
               THEN Throw(Wrap(<<"User already exists on the VPS">>))
               ELSE /\ pc' = "useradd"
                    /\ inflight' = FALSE
                    /\ UNCHANGED <<reports, ret, log, connLog>>
    /\ UNCHANGED <<idx, runs, envVars, answerVars, connVars, whoami,
                   results, privFails, saved>>
    /\ UNCHANGED <<sideVars, keyPair, authOp>>

\* `sudo useradd -m -s /bin/bash ${username}`; useradd cannot succeed for a
\* name that is already an account.
UseraddResult(r) ==
    /\ pc = "useradd"
    /\ inflight
    /\ r \in PlainResults
    /\ username \in remoteUsers => Failed(r)
    /\ remoteUsers' = IF Failed(r) THEN remoteUsers
                      ELSE remoteUsers \cup {username}
    /\ results' = [results EXCEPT !.useradd = How(r)]
    /\ IF UseraddOutcome(r) = "throw"
       THEN /\ Throw(Wrap(<<"exec error">>))
            /\ UNCHANGED idx
       ELSE /\ pc' = "sudo"
            /\ idx' = 1
            /\ inflight' = FALSE
            /\ UNCHANGED <<reports, ret, log, connLog>>
    /\ UNCHANGED <<runs, sshHosts, files, db, answerVars, connVars, checkUser,
                   whoami, privFails, saved>>
    /\ UNCHANGED <<sideVars, keyPair, authOp>>

\* for (const cmd of sudoCommands) try { await ... } catch (err) { }
SudoResult(r) ==
    /\ pc = "sudo"
    /\ inflight
    /\ r \in PlainResults
    /\ privFails' = IF Failed(r) THEN privFails + 1 ELSE privFails
    /\ IF SudoOutcome(r) = "throw"
       THEN /\ Throw(Wrap(<<"exec error">>))
            /\ UNCHANGED idx
       ELSE /\ inflight' = FALSE
            /\ IF idx < Len(sudoCommands)
               THEN idx' = idx + 1 /\ pc' = pc
               ELSE idx' = 1 /\ pc' = "sshsetup"
            /\ UNCHANGED <<reports, ret, log, connLog>>
    /\ UNCHANGED <<runs, envVars, answerVars, connVars, checkUser, whoami,
                   results, saved>>
    /\ UNCHANGED <<sideVars, keyPair, authOp>>

\* for (const cmd of sshSetupCommands) await executeSSHCommand(conn, cmd)
SshSetupResult(r) ==
    /\ pc = "sshsetup"
    /\ inflight
    /\ r \in PlainResults
    /\ results' = IF Failed(r) /\ results.install = NoFail
                  THEN [results EXCEPT
                            !.install = [cmd |-> sshSetupCommands[idx],
                                         how |-> How(r)]]
                  ELSE results
    /\ IF SshSetupOutcome(r) = "throw"
       THEN /\ Throw(Wrap(<<"exec error">>))
            /\ UNCHANGED idx
       ELSE /\ inflight' = FALSE
            /\ IF idx < Len(sshSetupCommands)
               THEN idx' = idx + 1 /\ pc' = pc
               ELSE idx' = 0 /\ pc' = "verify"
            /\ UNCHANGED <<reports, ret, log, connLog>>
    /\ UNCHANGED <<runs, envVars, answerVars, connVars, checkUser, whoami,
                   privFails, saved>>
    /\ UNCHANGED <<sideVars, keyPair, authOp>>

\* `sudo ls -la /home/${username}/.ssh/authorized_keys`
VerifyResult(r) ==
    /\ pc = "verify"
    /\ inflight
    /\ r \in PlainResults
    /\ results' = [results EXCEPT !.verify = How(r)]
    /\ IF VerifyOutcome(r) = "throw"
       THEN Throw(Wrap(IF r.kind = "error" THEN <<"exec error">>
                       ELSE <<"Failed to verify SSH key setup">>))
       ELSE /\ pc' = "end"
            /\ inflight' = FALSE
            /\ UNCHANGED <<reports, ret, log, connLog>>
    /\ UNCHANGED <<idx, runs, envVars, answerVars, connVars, checkUser,
                   whoami, privFails, saved>>
    /\ UNCHANGED <<sideVars, keyPair, authOp>>

(***************************************************************************)
(* setupVPS after setupVPSUser, and testNewUserConnection                  *)
(***************************************************************************)
\* conn.end(), then the settling timer is started.
EndProvisioning ==
    /\ pc = "end"
    /\ provConn' = EndSession(provConn)
    /\ pc' = "settle"
    /\ UNCHANGED <<idx, inflight, runs, ret, envVars, answerVars, testConn,
                   leaked, conns, log, histVars, reports>>
    /\ UNCHANGED <<sideVars, opVars>>

\* A confirmation login that takes the identity file of the host entry.
TestConnectionConfigOfEntry(h, user, keyPath) ==
    [sess |-> "test", host |-> h.hostname, port |-> h.port,
     user |-> user, key |-> h.identityFile]

\* testNewUserConnection(selectedHost.hostname, selectedHost.port,
\* setupDetails.username, keyPair.privateKeyPath): the config it hands to
\* createSSHConnection; it carries no password.
TestConnectionConfig(h, user, keyPath) ==
    [sess |-> "test", host |-> h.hostname, port |-> h.port,
     user |-> user, key |-> keyPath]

\* The timer fires; testNewUserConnection calls createSSHConnection with the
\* new user and the generated private key.
TestConnectStart ==
    /\ pc = "settle"
    /\ LET key == KeyPathOf(hostName, runs)
           auth == KeyCheck(key, files) IN
       IF auth = "notfound"
       THEN /\ Throw(<<"Connection test failed: ", "Private key not found at: ",
                      key.name>>)
            /\ UNCHANGED <<testConn, conns>>
       ELSE /\ conns' = Append(conns,
                   TestConnectionConfig(selectedHost, username, key))
            /\ testConn' = "connecting"
            /\ pc' = "testconnecting"
            /\ UNCHANGED <<reports, ret, inflight, log, connLog>>
    /\ UNCHANGED <<idx, runs, envVars, answerVars, provConn, leaked, histVars>>
    /\ UNCHANGED <<sideVars, keyPair, authOp>>

TestConnectReady ==
    /\ pc = "testconnecting"
    /\ testConn' = "open"
    /\ pc' = "whoami"
    /\ UNCHANGED <<idx, inflight, runs, ret, envVars, answerVars, provConn,
                   leaked, conns, log, histVars, reports>>
    /\ UNCHANGED <<sideVars, opVars>>

TestConnectError ==
    /\ pc = "testconnecting"
    /\ testConn' = "failed"
    /\ Throw(<<"Connection test failed: ", "connect error">>)
    /\ UNCHANGED <<idx, runs, envVars, answerVars, provConn, leaked, conns,
                   histVars>>
    /\ UNCHANGED <<sideVars, keyPair, authOp>>

\* What the remote `whoami` may print on the confirmation session.
WhoamiOutputs ==
    { username \o <<"\n">>, RootName \o <<"\n">>, <<>>,
      username \o <<"x","\n">> }

\* const result = await executeSSHCommand(conn, 'whoami'); conn.end();
\* return result.stdout.trim() === username -- and in setupVPS
\* if (!testResult) throw new Error('New user connection test failed')
WhoamiResult(r) ==
    /\ pc = "whoami"
    /\ inflight
    /\ r \in {Closed(0, o) : o \in WhoamiOutputs} \cup {ExecError}
    /\ IF r.kind = "error"
       THEN /\ Throw(<<"Connection test failed: ", "exec error">>)
            /\ UNCHANGED <<testConn, whoami>>
       ELSE /\ testConn' = "ended"
            /\ whoami' = <<r.stdout>>
            /\ IF TestResult(r.stdout, username)
               THEN /\ pc' = "save"
                    /\ inflight' = FALSE
                    /\ UNCHANGED <<reports, ret, log, connLog>>
               ELSE Throw(<<"New user connection test failed">>)
    /\ UNCHANGED <<idx, runs, envVars, answerVars, provConn, leaked, conns,
                   checkUser, results, privFails, saved>>
    /\ UNCHANGED <<sideVars, keyPair, authOp>>

\* saveVPSHost, saveSSHKey, logConnection, showSuccess.
Save ==
    /\ pc = "save"
    /\ LET row == HostData(selectedHost, hostName, username,
                           KeyPathOf(hostName, runs)) IN
       IF SaveThrows(db, row)
       THEN /\ Throw(<<"constraint failed">>)
            /\ UNCHANGED <<db, saved>>
       ELSE /\ db' = db \cup {row}
            /\ saved' = TRUE
            /\ reports' = reports \o SuccessReports
            /\ pc' = "menu"
            /\ ret' = "done"
            /\ connLog' =
                   IF LogConnectionThrows(Cardinality(db) + 1, db \cup {row})
                   THEN connLog
                   ELSE Append(connLog, LogRow("setup", TRUE, <<>>))
            /\ UNCHANGED <<inflight, log>>
    /\ UNCHANGED <<idx, runs, sshHosts, files, remoteUsers, answerVars,
                   connVars, checkUser, whoami, results, privFails>>
    /\ UNCHANGED <<sideVars, keyPair, authOp>>

(***************************************************************************)
(* remoteAuth                                                              *)
(***************************************************************************)
\* vps_hosts.id of a stored row: rows are inserted in the order of the
\* stamps of their keys and are never deleted.
IdOf(row, rows) ==
    Cardinality({r \in rows :
                     r.privateKeyPath.stamp <= row.privateKeyPath.stamp})

\* The choices of remoteAuth's action prompt.
AuthActions == {"connect", "info", "test", "back"}

\* Exit codes of the spawned ssh process.
SSHExitCodes == {"0", "255"}

\* The error of a better-sqlite3 call that cannot reach the database file.
StoreError == <<"database is locked">>

ConnectionErrorReport(msg) ==
    [kind |-> "error", msg |-> <<"Connection Error: ">> \o msg]

\* The box of the 'test' action: showSuccess(`Connection to ... is working!`).
ConnectionWorksReport(name) ==
    [kind |-> "connection", msg |-> <<"Connection to ", name, " is working!">>]

NoManagedHostsReport ==
    [kind |-> "info", msg |-> <<"No managed VPS hosts found.">>]

\* An error of remoteAuth that reaches main: main's catch reports it and
\* calls process.exit(1).
OuterCatchRethrows(msg) ==
    [pc |-> "exited",
     reports |-> <<[kind |-> "error",
                    msg |-> <<"Application Error: ">> \o msg]>>]

\* remoteAuth's outer catch: showError(`Remote Auth Error: ...`), and the
\* function returns to the menu loop.
OuterCatch(msg) ==
    [pc |-> "menu",
     reports |-> <<[kind |-> "error",
                    msg |-> <<"Remote Auth Error: ">> \o msg]>>]

\* What an auth step leaves alone.
authFrame ==
    <<inflight, runs, ret, envVars, answerVars, connVars, log, histVars,
      keyPair, sideVars>>

\* remoteAuth's inner catch: showError(`Connection Error: ...`), then
\* logConnection(selectedHost.id, action, false, error.message), which is
\* not in a try of its own: if it throws, the outer catch handles it.
InnerCatch(id, action, msg, fault) ==
    IF fault \/ LogConnectionThrows(id, db)
    THEN /\ reports' = Append(reports, ConnectionErrorReport(msg))
                           \o OuterCatch(StoreError).reports
         /\ pc' = OuterCatch(StoreError).pc
         /\ connLog' = connLog
    ELSE /\ reports' = Append(reports, ConnectionErrorReport(msg))
         /\ pc' = "menu"
         /\ connLog' = Append(connLog, LogRow(action, FALSE, <<msg>>))

\* logConnection(selectedHost.id, type, true) at the end of an action, then
\* the "another action?" prompt; the shown reports come first.
LogSuccess(type, shown, fault1, fault2) ==
    IF fault1 \/ LogConnectionThrows(authOp.id, db)
    THEN /\ reports' = Append(reports \o shown, ConnectionErrorReport(StoreError))
                           \o (IF fault2 THEN OuterCatch(StoreError).reports
                               ELSE <<>>)
         /\ pc' = IF fault2 THEN OuterCatch(StoreError).pc ELSE "menu"
         /\ connLog' = IF fault2 THEN connLog
                       ELSE Append(connLog,
                                LogRow(authOp.action, FALSE, <<StoreError>>))
    ELSE /\ reports' = reports \o shown
         /\ pc' = "auth_continue"
         /\ connLog' = Append(connLog, LogRow(type, TRUE, <<>>))

\* The start of remoteAuth, from the menu or from its recursive call:
\* getAllVPSHosts, and the early return when there is no managed host.
RemoteAuthStart(fault) ==
    /\ authOp' = NoAuth
    /\ connLog' = <<>>
    /\ IF fault
       THEN /\ reports' = OuterCatch(StoreError).reports
            /\ pc' = OuterCatch(StoreError).pc
       ELSE IF db = {}
       THEN /\ reports' = <<NoManagedHostsReport>>
            /\ pc' = "menu"
       ELSE /\ reports' = <<>>
            /\ pc' = "auth_select"

\* case 'auth': await remoteAuth()
MenuAuth(fault) ==
    /\ pc = "menu"
    /\ runs < MaxRuns
    /\ runs' = runs + 1
    /\ idx' = 0
    /\ inflight' = FALSE
    /\ ret' = "auth"
    /\ selectedHost' = NoHost
    /\ hostName' = ""
    /\ username' = <<>>
    /\ leaked' = leaked + OpenCount(provConn, testConn)
    /\ provConn' = "none"
    /\ testConn' = "none"
    /\ conns' = <<>>
    /\ log' = <<>>
    /\ checkUser' = <<>>
    /\ whoami' = <<>>
    /\ results' = NoResults
    /\ privFails' = 0
    /\ saved' = FALSE
    /\ keyPair' = NoKeyPair
    /\ RemoteAuthStart(fault)
    /\ UNCHANGED <<envVars, sideVars>>

\* The host prompt and the action prompt.  'back' returns; 'connect' spawns
\* ssh; 'info' and 'test' call createSSHConnection with the managed user and
\* the stored private key path.
AuthSelect(row, action, fault) ==
    /\ pc = "auth_select"
    /\ row \in db
    /\ action \in AuthActions
    /\ LET id == IdOf(row, db)
           op == [host |-> row.name, id |-> id, action |-> action,
                  sess |-> "none"] IN
       CASE action = "back" ->
                /\ authOp' = op
                /\ pc' = "menu"
                /\ UNCHANGED <<reports, connLog>>
         [] action = "connect" ->
                /\ authOp' = op
                /\ pc' = "auth_ssh"
                /\ UNCHANGED <<reports, connLog>>
         [] OTHER ->
                IF KeyCheck(row.privateKeyPath, files) = "notfound"
                THEN /\ authOp' = op
                     /\ InnerCatch(id, action,
                            <<"Private key not found at: ",
                              row.privateKeyPath.name>>, fault)
                ELSE /\ authOp' = [op EXCEPT !.sess = "connecting"]
                     /\ pc' = "auth_connecting"
                     /\ UNCHANGED <<reports, connLog>>
    /\ UNCHANGED <<idx, authFrame>>

\* openInteractiveSSH: the ssh process exits; code 0 resolves, any other
\* code rejects.
AuthSSHExit(code, fault1, fault2) ==
    /\ pc = "auth_ssh"
    /\ code \in SSHExitCodes
    /\ IF code = "0"
       THEN LogSuccess("ssh", <<>>, fault1, fault2)
       ELSE InnerCatch(authOp.id, authOp.action,
                <<"SSH session exited with code ", code>>, fault2)
    /\ UNCHANGED <<idx, authOp, authFrame>>

\* conn.on('ready'): 'test' ends the session, shows the success box and
\* logs; 'info' goes on to getSystemInfo.
AuthConnectReady(fault1, fault2) ==
    /\ pc = "auth_connecting"
    /\ IF authOp.action = "info"
       THEN /\ authOp' = [authOp EXCEPT !.sess = "open"]
            /\ pc' = "auth_info"
            /\ idx' = 1
            /\ UNCHANGED <<reports, connLog>>
       ELSE /\ authOp' = [authOp EXCEPT !.sess = EndSession(authOp.sess)]
            /\ idx' = idx
            /\ LogSuccess("test", <<ConnectionWorksReport(authOp.host)>>,
                           fault1, fault2)
    /\ UNCHANGED authFrame

\* conn.on('error', reject)
AuthConnectError(fault) ==
    /\ pc = "auth_connecting"
    /\ authOp' = [authOp EXCEPT !.sess = "failed"]
    /\ InnerCatch(authOp.id, authOp.action, <<"connect error">>, fault)
    /\ UNCHANGED <<idx, authFrame>>

\* getSystemInfo on the managed session: every command in its own
\* try/catch; after the last one conn.end() and logConnection.
AuthInfoResult(r, fault1, fault2) ==
    /\ pc = "auth_info"
    /\ r \in PlainResults
    /\ IF idx < Len(SysInfoCommands)
       THEN /\ idx' = idx + 1
            /\ UNCHANGED <<pc, reports, connLog, authOp>>
       ELSE /\ idx' = 0
            /\ authOp' = [authOp EXCEPT !.sess = EndSession(authOp.sess)]
            /\ LogSuccess("info", <<>>, fault1, fault2)
    /\ UNCHANGED authFrame

\* "Would you like to perform another action?": yes calls remoteAuth again,
\* and the caller returns when that call has returned.
AuthContinue(yes, fault) ==
    /\ pc = "auth_continue"
    /\ IF yes
       THEN RemoteAuthStart(fault)
       ELSE /\ pc' = "menu"
            /\ UNCHANGED <<reports, connLog, authOp>>
    /\ UNCHANGED <<idx, authFrame>>

Next ==
    \/ MenuSetup
    \/ MenuExit
    \/ \E h \in Hosts, n \in HostNameInputs, u \in UsernameInputs :
           PromptDetails(h, n, u)
    \/ \E yes \in BOOLEAN : ConfirmSetup(yes)
    \/ ProvConnectStart
    \/ ProvConnectReady
    \/ ProvConnectError
    \/ ExecIssue
    \/ \E r \in PlainResults : SysInfoResult(r)
    \/ \E outcome \in KeygenOutcomes : Keygen(outcome)
    \/ \E r \in {Closed(0, ProbeOutput(username, remoteUsers)), ExecError} :
           ProbeResult(r)
    \/ \E r \in PlainResults : UseraddResult(r)
    \/ \E r \in PlainResults : SudoResult(r)
    \/ \E r \in PlainResults : SshSetupResult(r)
    \/ \E r \in PlainResults : VerifyResult(r)
    \/ EndProvisioning
    \/ TestConnectStart
    \/ TestConnectReady
    \/ TestConnectError
    \/ \E r \in {Closed(0, o) : o \in WhoamiOutputs} \cup {ExecError} :
           WhoamiResult(r)
    \/ Save
    \/ \E fault \in BOOLEAN : MenuAuth(fault)
    \/ \E row \in db, action \in AuthActions, fault \in BOOLEAN :
           AuthSelect(row, action, fault)
    \/ \E code \in SSHExitCodes, fault1 \in BOOLEAN, fault2 \in BOOLEAN :
           AuthSSHExit(code, fault1, fault2)
    \/ \E fault1 \in BOOLEAN, fault2 \in BOOLEAN :
           AuthConnectReady(fault1, fault2)
    \/ \E fault \in BOOLEAN : AuthConnectError(fault)
    \/ \E r \in PlainResults, fault1 \in BOOLEAN, fault2 \in BOOLEAN :
           AuthInfoResult(r, fault1, fault2)
    \/ \E yes \in BOOLEAN, fault \in BOOLEAN : AuthContinue(yes, fault)

Spec == Init /\ [][Next]_vars

\* The steps of a setup run past the confirmation prompt: the code's own
\* steps, the outcomes of its connection attempts and the results of its
\* commands.
RunStep ==
    \/ ProvConnectStart
    \/ ProvConnectReady
    \/ ProvConnectError
    \/ ExecIssue
    \/ \E r \in PlainResults : SysInfoResult(r)
    \/ \E outcome \in KeygenOutcomes : Keygen(outcome)
    \/ \E r \in {Closed(0, ProbeOutput(username, remoteUsers)), ExecError} :
           ProbeResult(r)
    \/ \E r \in PlainResults : UseraddResult(r)
    \/ \E r \in PlainResults : SudoResult(r)
    \/ \E r \in PlainResults : SshSetupResult(r)
    \/ \E r \in PlainResults : VerifyResult(r)
    \/ EndProvisioning
    \/ TestConnectStart
    \/ TestConnectReady
    \/ TestConnectError
    \/ \E r \in {Closed(0, o) : o \in WhoamiOutputs} \cup {ExecError} :
           WhoamiResult(r)
    \/ Save

\* The menu loop when every connection attempt becomes ready or errors,
\* every channel closes and the event loop runs every continuation that is
\* ready: a run past the confirmation prompt does not stay where it is while
\* it has a step to take.  The prompts wait for the operator.
SpecLive == Init /\ [][Next]_vars /\ WF_vars(RunStep)

(***************************************************************************)
(* executeSSHCommand, followed event by event                              *)
(***************************************************************************)
\* Most bytes one stream of the command delivers.
MaxBytes == 2

\* The bytes the remote command may write: the ASCII letter a, and the two
\* bytes C3 A9 that encode U+00E9 in UTF-8.
Bytes == {"a", "C3", "A9"}

Ascii == {"a"}

LeadByte == "C3"

ContinuationByte == "A9"

\* Buffer.prototype.toString(): UTF-8 decoding of one buffer.  A lead byte
\* with its continuation byte is one character; a lead byte without it, or a
\* continuation byte on its own, decodes to U+FFFD.
RECURSIVE toString(_)
toString(data) ==
    IF data = <<>> THEN <<>>
    ELSE IF Head(data) \in Ascii THEN <<Head(data)>> \o toString(Tail(data))
    ELSE IF /\ Head(data) = LeadByte
            /\ Len(data) >= 2
            /\ data[2] = ContinuationByte
         THEN <<"U+00E9">> \o toString(Tail(Tail(data)))
    ELSE <<"U+FFFD">> \o toString(Tail(data))

\* The buffers a 'data' event may carry.
Chunks == UNION {[1..n -> Bytes] : n \in 1..MaxBytes}

ExitCodes == {0, 1}

\* The process is idle at the menu; one executeSSHCommand call has been made
\* and conn.exec has not called back yet.
InitExec ==
    /\ InitMain
    /\ sshHosts = {}
    /\ db = {}
    /\ files = {}
    /\ remoteUsers = {RootName}
    /\ cfgFile = NoConfig
    /\ parsed = NoCall
    /\ chan = [NoChannel EXCEPT !.phase = "called"]

\* conn.exec calls back with err: if (err) return reject(err)
ExecRejected ==
    /\ chan.phase = "called"
    /\ chan' = [chan EXCEPT !.phase = "rejected",
                            !.settled = Append(@, [kind |-> "error"])]
    /\ UNCHANGED <<mainVars, cfgFile, parsed>>

\* conn.exec calls back with the stream: the three handlers are registered.
ExecStarted ==
    /\ chan.phase = "called"
    /\ chan' = [chan EXCEPT !.phase = "open"]
    /\ UNCHANGED <<mainVars, cfgFile, parsed>>

\* stream.on('data', (data) => { stdout += data.toString(); })
StdoutData(data) ==
    /\ chan.phase = "open"
    /\ Len(chan.rawOut) + Len(data) <= MaxBytes
    /\ chan' = [chan EXCEPT !.stdout = @ \o toString(data),
                            !.rawOut = @ \o data]
    /\ UNCHANGED <<mainVars, cfgFile, parsed>>

\* stream.stderr.on('data', (data) => { stderr += data.toString(); })
StderrData(data) ==
    /\ chan.phase = "open"
    /\ Len(chan.rawErr) + Len(data) <= MaxBytes
    /\ chan' = [chan EXCEPT !.stderr = @ \o toString(data),
                            !.rawErr = @ \o data]
    /\ UNCHANGED <<mainVars, cfgFile, parsed>>

\* stream.on('close', (code, signal) => { resolve({ code, stdout, stderr }); })
StreamClose(code) ==
    /\ chan.phase = "open"
    /\ chan' = [chan EXCEPT
                   !.phase = "closed",
                   !.settled = Append(@, [kind |-> "result", code |-> code,
                                          stdout |-> chan.stdout,
                                          stderr |-> chan.stderr])]
    /\ UNCHANGED <<mainVars, cfgFile, parsed>>

NextExec ==
    \/ ExecRejected
    \/ ExecStarted
    \/ \E data \in Chunks : StdoutData(data)
    \/ \E data \in Chunks : StderrData(data)
    \/ \E code \in ExitCodes : StreamClose(code)

SpecExec == InitExec /\ [][NextExec]_vars

(***************************************************************************)
(* parseSSHConfig                                                          *)
(***************************************************************************)
Upper == {"C", "F", "H", "I", "N", "P", "U"}

\* String.prototype.toLowerCase, character by character.
LowerOf(c) ==
    CASE c = "C" -> "c" [] c = "F" -> "f" [] c = "H" -> "h" [] c = "I" -> "i"
      [] c = "N" -> "n" [] c = "P" -> "p" [] c = "U" -> "u" [] OTHER -> c

toLowerCase(s) == [i \in DOMAIN s |-> LowerOf(s[i])]

\* The regular-expression class \w.
WordChar == Lower \cup Upper \cup Digit \cup {"_"}

Quotes == {"\"", "'"}

\* A property that is null (or a string that is empty).
None == <<>>

\* Numbers as parseInt returns them: NaN, or an integer.
NaN == <<>>

Num(n) == <<n>>

\* homedir()
Home == <<"/", "h">>

\* trimmedLine.match(/^Host\s+(.+)$/i): no match, or the one group.
HostMatch(t) ==
    IF /\ Len(t) >= 6
       /\ toLowerCase(SubSeq(t, 1, 4)) = <<"h", "o", "s", "t">>
       /\ t[5] \in Whitespace
       /\ TrimStart(SubSeq(t, 5, Len(t))) # <<>>
    THEN <<TrimStart(SubSeq(t, 5, Len(t)))>>
    ELSE <<>>

\* The length of the longest prefix of s made of \w characters.
RECURSIVE WordPrefix(_)
WordPrefix(s) ==
    IF s # <<>> /\ Head(s) \in WordChar THEN 1 + WordPrefix(Tail(s)) ELSE 0

\* trimmedLine.match(/^(\w+)\s+(.+)$/): no match, or the two groups.
PropertyMatch(t) ==
    LET n == WordPrefix(t) IN
    IF /\ n >= 1
       /\ n < Len(t)
       /\ t[n + 1] \in Whitespace
       /\ TrimStart(SubSeq(t, n + 1, Len(t))) # <<>>
    THEN <<[key |-> SubSeq(t, 1, n),
            value |-> TrimStart(SubSeq(t, n + 1, Len(t)))]>>
    ELSE <<>>

DigitValue(c) ==
    CASE c = "0" -> 0 [] c = "1" -> 1 [] c = "2" -> 2 [] c = "3" -> 3
      [] c = "4" -> 4 [] c = "5" -> 5 [] c = "6" -> 6 [] c = "7" -> 7
      [] c = "8" -> 8 [] c = "9" -> 9

\* The value of the longest prefix of decimal digits of s, after acc.
RECURSIVE Digits(_, _)
Digits(s, acc) ==
    IF s # <<>> /\ Head(s) \in Digit
    THEN Digits(Tail(s), 10 * acc + DigitValue(Head(s)))
    ELSE acc

\* parseInt(value, 10): leading white space, a sign, then the digits up to
\* the first character that is none; NaN when there is no digit.
parseInt(value) ==
    LET s == TrimStart(value)
        signed == s # <<>> /\ Head(s) \in {"+", "-"}
        d == IF signed THEN Tail(s) ELSE s
    IN  IF d = <<>> \/ Head(d) \notin Digit THEN NaN
        ELSE IF signed /\ Head(s) = "-" THEN Num(0 - Digits(d, 0))
        ELSE Num(Digits(d, 0))

\* replace(/^["']|["']$/g, '') with only its first match replaced.
StripFirstQuote(s) ==
    IF s # <<>> /\ Head(s) \in Quotes THEN Tail(s)
    ELSE IF s # <<>> /\ s[Len(s)] \in Quotes THEN SubSeq(s, 1, Len(s) - 1)
    ELSE s

\* value.trim().replace(/^["']|["']$/g, ''): a quote at the start and a
\* quote at the end are removed.
StripQuotes(s) ==
    LET a == IF s # <<>> /\ Head(s) \in Quotes THEN Tail(s) ELSE s
    IN  IF a # <<>> /\ a[Len(a)] \in Quotes
        THEN SubSeq(a, 1, Len(a) - 1)
        ELSE a

\* cleanPath.replace(/^~/, homedir())
ExpandTilde(s) == IF s # <<>> /\ Head(s) = "~" THEN Home \o Tail(s) ELSE s

\* currentHost = { host: hostMatch[1], hostname: null, user: null, port: 22,
\*                 identityFile: null, options: {} }
NewHost(alias) ==
    [host |-> alias, hostname |-> None, user |-> None, port |-> Num(22),
     identityFile |-> None, options |-> {}]

\* The switch on key.toLowerCase().
SetProperty(h, key, value) ==
    LET k == toLowerCase(key) IN
    IF k = <<"h", "o", "s", "t", "n", "a", "m", "e">>
    THEN [h EXCEPT !.hostname = value]
    ELSE IF k = <<"u", "s", "e", "r">>
    THEN [h EXCEPT !.user = value]
    ELSE IF k = <<"p", "o", "r", "t">>
    THEN [h EXCEPT !.port = parseInt(value)]
    ELSE IF k = <<"i", "d", "e", "n", "t", "i", "t", "y", "f", "i", "l", "e">>
    THEN [h EXCEPT !.identityFile = ExpandTilde(StripQuotes(Trim(value)))]
    ELSE [h EXCEPT !.options =
              {o \in @ : o.key # key} \cup {[key |-> key, value |-> value]}]

\* hosts.unshift(currentHost)
Unshift(hosts, h) == <<h>> \o hosts

\* hosts.push(currentHost)
Push(hosts, h) == Append(hosts, h)

\* if (currentHost && currentHost.host) hosts.push(currentHost)
Flush(st) ==
    IF st.cur # <<>> /\ st.cur[1].host # None
    THEN Push(st.hosts, st.cur[1])
    ELSE st.hosts

\* One pass of the loop over the lines, from the state [hosts, cur] where
\* cur is empty (currentHost is null) or holds currentHost.
Step(st, line) ==
    LET t == Trim(line) IN
    IF t = <<>> \/ Head(t) = "#" THEN st
    ELSE IF HostMatch(t) # <<>>
    THEN [hosts |-> Flush(st), cur |-> <<NewHost(HostMatch(t)[1])>>]
    ELSE IF st.cur # <<>> /\ PropertyMatch(t) # <<>>
    THEN [st EXCEPT !.cur = <<SetProperty(st.cur[1], PropertyMatch(t)[1].key,
                                          PropertyMatch(t)[1].value)>>]
    ELSE st

RECURSIVE Loop(_, _)
Loop(st, lines) ==
    IF lines = <<>> THEN st ELSE Loop(Step(st, Head(lines)), Tail(lines))

\* The filter without its test for '?'.
RetainedNoQuestion(h) ==
    ~Includes(h.host, <<"*">>) /\ h.hostname # None

\* The filter without its test of the hostname.
RetainedAnyHostname(h) ==
    ~Includes(h.host, <<"*">>) /\ ~Includes(h.host, <<"?">>)

\* host => !host.host.includes('*') && !host.host.includes('?')
\*         && host.hostname
Retained(h) ==
    /\ ~Includes(h.host, <<"*">>)
    /\ ~Includes(h.host, <<"?">>)
    /\ h.hostname # None

\* The body of the try block, for the lines of the file.
ParseLines(lines) ==
    SelectSeq(Flush(Loop([hosts |-> <<>>, cur |-> <<>>], lines)), Retained)

Return(hosts) == [outcome |-> "returned", hosts |-> hosts]

\* A catch block that lets the error reach the caller.
CatchRethrows == [outcome |-> "thrown", hosts |-> <<>>]

\* catch (error) { console.error(...); return []; }
Catch == Return(<<>>)

(***************************************************************************)
(* parseSSHConfig: the files it may find                                   *)
(***************************************************************************)
\* Most blocks of lines one configuration file is made of.
MaxBlocks == 3

HostSp == <<"H", "o", "s", "t", " ">>

HostNameH1 == <<"H", "o", "s", "t", "N", "a", "m", "e", " ", "h", "1">>

hostnameH2 == <<"h", "o", "s", "t", "n", "a", "m", "e", "\t", "h", "2">>

UserRoot == <<"U", "s", "e", "r", " ", "r", "o", "o", "t">>

IdentityFileSp ==
    <<"I", "d", "e", "n", "t", "i", "t", "y", "F", "i", "l", "e", " ">>

\* Host a / HostName h1 (indented) / User root
BlockA ==
    << HostSp \o <<"a">>, <<" ", " ">> \o HostNameH1, UserRoot >>

\* A second block for the alias a, with an unquoted identity file.
BlockAgain ==
    << HostSp \o <<"a">>, hostnameH2, IdentityFileSp \o <<"~", "/", "k">> >>

\* A block that declares no HostName.
BlockB == << HostSp \o <<"b">>, UserRoot >>

\* Host * with a HostName.
BlockStar == << HostSp \o <<"*">>, HostNameH1 >>

\* host w? (keyword in lower case) with a HostName.
BlockQuestion == << <<"h", "o", "s", "t", " ", "w", "?">>, HostNameH1 >>

\* A comment that looks like a Host line, and a Port that is no number.
BlockC ==
    << HostSp \o <<"c">>, <<"#", " ">> \o HostSp \o <<"z">>, HostNameH1,
       <<"P", "o", "r", "t", " ", "a", "b", "c">> >>

\* An empty line, a line that is no property, a numeric Port, a quoted
\* identity file with '~' and an option.
BlockD ==
    << HostSp \o <<"d">>, <<>>,
       <<"H", "o", "s", "t", "N", "a", "m", "e", "=", "h", "1">>,
       hostnameH2,
       <<"P", "o", "r", "t", " ", "2", "2", "2", "2">>,
       IdentityFileSp \o <<"\"", "~", "/", "k", "\"">>,
       <<"C", "o", "m", "p", "r", "e", "s", "s", "i", "o", "n", " ",
         "y", "e", "s">> >>

\* An identity file with an opening quote only, then nothing but white space.
BlockE ==
    << HostSp \o <<"e">>, HostNameH1, IdentityFileSp \o <<"'", "/", "k">>,
       <<" ", "\t">> >>

\* Property lines without a Host line of their own.
Loose == << UserRoot, hostnameH2 >>

Blocks ==
    {BlockA, BlockAgain, BlockB, BlockStar, BlockQuestion, BlockC, BlockD,
     BlockE, Loose}

RECURSIVE Flatten(_)
Flatten(bs) == IF bs = <<>> THEN <<>> ELSE Head(bs) \o Flatten(Tail(bs))

\* configContent.split('\n') for the files made of at most MaxBlocks blocks.
ConfigLines == {Flatten(bs) : bs \in UNION {[1..n -> Blocks] : n \in 0..MaxBlocks}}

\* ~/.ssh/config does not exist, cannot be read, or holds some lines.
ConfigFiles ==
    {[state |-> "missing", lines |-> <<>>],
     [state |-> "unreadable", lines |-> <<>>]}
    \cup {[state |-> "present", lines |-> ls] : ls \in ConfigLines}

\* The process is idle at the menu; parseSSHConfig is about to be called.
InitParse ==
    /\ InitMain
    /\ sshHosts = {}
    /\ db = {}
    /\ files = {}
    /\ remoteUsers = {RootName}
    /\ cfgFile \in ConfigFiles
    /\ parsed = NoCall
    /\ chan = NoChannel

\* parseSSHConfig()
ParseSSHConfig ==
    /\ cfgFile.state # "none"
    /\ parsed.outcome = "none"
    /\ parsed' = IF cfgFile.state = "missing" THEN Return(<<>>)
                 ELSE IF cfgFile.state = "unreadable" THEN Catch
                 ELSE Return(ParseLines(cfgFile.lines))
    /\ UNCHANGED <<mainVars, cfgFile, chan>>

NextParse == ParseSSHConfig

SpecParse == InitParse /\ [][NextParse]_vars

(***************************************************************************)
(* Vocabulary of the properties                                            *)
(***************************************************************************)
\* setupVPS went past the confirmation prompt and has returned to the menu
\* loop (which may since have been left through Exit).
Returned == pc \in {"menu", "exited"} /\ ret = "done"

LogCmds == [i \in DOMAIN log |-> log[i].cmd]

Issued == {log[i].cmd : i \in DOMAIN log}

LastCmd == IF log = <<>> THEN "none" ELSE log[Len(log)].cmd

ConfirmationAttempted == \E i \in DOMAIN conns : conns[i].sess = "test"

IsPrefix(s, t) == Len(s) <= Len(t) /\ s = SubSeq(t, 1, Len(s))

ErrorReport(msg) == [kind |-> "error", msg |-> <<"Setup Error: ">> \o msg]

AlreadyExistsReport ==
    ErrorReport(<<"VPS setup failed: ", "User already exists on the VPS">>)

SucceededReported == \E i \in DOMAIN reports : reports[i].kind = "success"

\* The run ended with one failure report and nothing after command c.
HaltedAt(c) ==
    /\ Returned
    /\ LastCmd = c
    /\ ~inflight
    /\ Len(reports) = 1
    /\ reports[1].kind = "error"
    /\ ~ConfirmationAttempted
    /\ ~saved

InstallCmds == {"mkdir_ssh", "tee_authorized_keys", "chown_ssh", "chmod_700",
                "chmod_600"}

PrivilegeCmds == {"usermod_sudo", "usermod_wheel", "sudoers_tee", "sudoers_chmod"}

(***************************************************************************)
(* C1                                                                      *)
(***************************************************************************)
ProbeReportedExisting ==
    checkUser # <<>> /\ ~Includes(checkUser[1], NotFoundMarker)

\* C1: when the probe output reports that the user exists (it does not carry
\* the not_found marker), the run has halted at the probe with the
\* already-exists failure: no useradd, privilege or key-install command was
\* issued, no confirmation login was attempted, no host record was saved.
C1_ExistingUserHalts ==
    ProbeReportedExisting =>
        /\ HaltedAt(ProbeCommand)
        /\ reports = <<AlreadyExistsReport>>
        /\ Issued \cap ({UseraddCommand} \cup PrivilegeCmds \cup InstallCmds) = {}
        /\ testConn = "none"

C1_Witness ==
    /\ ProbeReportedExisting
    /\ username = Bob
    /\ Bob \in remoteUsers
    /\ Returned

(***************************************************************************)
(* C2                                                                      *)
(***************************************************************************)
\* The probe ran while an account of the requested name existed: the remote
\* side printed the id line of that account.
ProbedExistingAccount ==
    checkUser # <<>> /\ checkUser[1] = IdOutput(username)

\* C2: for every valid name, when the account exists at the time of the
\* probe the workflow decides AlreadyExists and issues no mutating command
\* for that account.
C2_ExistingAccountNeverMutated ==
    (ValidateUsername(username) /\ ProbedExistingAccount) =>
        /\ Issued \cap MutatingCommands = {}
        /\ Returned => reports = <<AlreadyExistsReport>>

(***************************************************************************)
(* C3                                                                      *)
(***************************************************************************)
\* C3: when useradd fails, by a non-zero exit code or by an exec error, the
\* run halts at useradd with a failure report: no later command, no
\* confirmation login, no host record.  (Stated for a name that was not an
\* account when the probe ran, so that the probe's own decision plays no
\* part.)
C3_UseraddFailureHalts ==
    (results.useradd \in {"nonzero", "execerr"} /\ ~ProbedExistingAccount) =>
        HaltedAt(UseraddCommand)

(***************************************************************************)
(* C4                                                                      *)
(***************************************************************************)
\* C4: when one of the five key-installation commands fails, by a non-zero
\* exit code or by an exec error, the run halts at that command with a
\* failure report: the remaining install commands, the verification and the
\* confirmation login are not performed and no host record is saved.
C4_InstallFailureHalts ==
    results.install # NoFail => HaltedAt(results.install.cmd)

(***************************************************************************)
(* C5                                                                      *)
(***************************************************************************)
ConfirmedAsNewUser == whoami # <<>> /\ Trim(whoami[1]) = username

VerificationFailureReports ==
    { ErrorReport(<<"New user connection test failed">>),
      ErrorReport(<<"Connection test failed: ", "connect error">>),
      ErrorReport(<<"Connection test failed: ", "exec error">>),
      ErrorReport(<<"Connection test failed: ", "Private key not found at: ",
                    "web-managed">>) }

\* C5: a run reports success or saves a host record only if the confirmation
\* session's whoami output, trimmed, equals the requested username; when the
\* confirmation login was attempted and did not confirm the user, the run
\* ends with a verification failure, never with success, and saves nothing.
C5_SuccessOnlyIfConfirmed ==
    /\ (SucceededReported \/ saved) => ConfirmedAsNewUser
    /\ (Returned /\ ConfirmationAttempted /\ ~ConfirmedAsNewUser) =>
           /\ Len(reports) = 1
           /\ reports[1] \in VerificationFailureReports
           /\ ~saved

C5_Witness ==
    /\ Returned
    /\ whoami = <<username \o <<"x", "\n">>>>
    /\ results.verify = "ok"
    /\ reports = <<ErrorReport(<<"New user connection test failed">>)>>

(***************************************************************************)
(* C6                                                                      *)
(***************************************************************************)
\* Position of the first privilege command in the log, 0 when not issued.
FirstPrivilegeAt ==
    IF \E i \in DOMAIN log : log[i].cmd = "usermod_sudo"
    THEN CHOOSE i \in DOMAIN log : log[i].cmd = "usermod_sudo"
    ELSE 0

\* C6: the privilege commands are attempted in their fixed order, and no
\* failure of any of them ends the run: a run that issued the first privilege
\* command and has returned issued all four and then the first
\* key-installation command.
C6_PrivilegeBestEffort ==
    LET k == FirstPrivilegeAt IN
    /\ k > 0 =>
          IsPrefix(SubSeq(LogCmds, k, Len(log)),
                   <<"usermod_sudo", "usermod_wheel", "sudoers_tee",
                     "sudoers_chmod">>)
          \/ /\ Len(log) >= k + 4
             /\ SubSeq(LogCmds, k, k + 4) =
                    <<"usermod_sudo", "usermod_wheel", "sudoers_tee",
                      "sudoers_chmod", "mkdir_ssh">>
    /\ (k > 0 /\ Returned) => Len(log) >= k + 4
    /\ pc = "sudo" => ret = "none"

C6_Witness ==
    /\ privFails = 4
    /\ "mkdir_ssh" \in Issued

(***************************************************************************)
(* C7                                                                      *)
(***************************************************************************)
\* C7: when the verification command returns a non-zero exit code the run
\* halts at it with the verify failure: the confirmation login is not
\* attempted and no host record is saved.
C7_VerifyFailureHalts ==
    results.verify = "nonzero" =>
        /\ HaltedAt(VerifyCommand)
        /\ reports =
               <<ErrorReport(<<"VPS setup failed: ",
                               "Failed to verify SSH key setup">>)>>
        /\ testConn = "none"

C7_Witness ==
    /\ results.verify = "nonzero"
    /\ results.useradd = "ok"
    /\ results.install = NoFail

(***************************************************************************)
(* C8                                                                      *)
(***************************************************************************)
Live(c) == c \in {"connecting", "open"}

\* C8: at most one remote session of a run is open at any moment: the
\* confirmation session is opened only once the provisioning session has been
\* ended and the settling delay has elapsed.
C8_OneSessionAtATime ==
    /\ ~(Live(provConn) /\ Live(testConn))
    /\ (testConn # "none" \/ ConfirmationAttempted) =>
           /\ provConn = "ended"
           /\ pc \notin {"end", "settle"}

C8_Witness == testConn = "open" /\ provConn = "ended"

(***************************************************************************)
(* C9                                                                      *)
(***************************************************************************)
ProvisioningOrder ==
    <<"id", "useradd",
      "usermod_sudo", "usermod_wheel", "sudoers_tee", "sudoers_chmod",
      "mkdir_ssh", "tee_authorized_keys", "chown_ssh", "chmod_700", "chmod_600",
      "ls_authorized_keys", "whoami">>

SystemInfoOrder == <<"os", "kernel", "uptime", "memory", "cpu", "hostname">>

\* C9 as claimed: every remote command of the run belongs to the fixed order
\* that starts with the probe.
C9_OrderFromProbe == IsPrefix(LogCmds, ProvisioningOrder)

C9_Order ==
    /\ IsPrefix(LogCmds, SystemInfoOrder \o ProvisioningOrder)
    /\ \A i \in DOMAIN log :
           log[i].sess = IF log[i].cmd = "whoami" THEN "test" ELSE "prov"
    /\ Len(conns) <= 2
    /\ \A i \in DOMAIN conns : conns[i].sess = IF i = 1 THEN "prov" ELSE "test"

\* A command is issued only when no result is pending, and it extends the
\* log by one entry (a new run starts from an empty log).
C9_Step ==
    log' # log =>
        \/ log' = <<>>
        \/ /\ ~inflight
           /\ inflight'
           /\ Len(log') = Len(log) + 1
           /\ SubSeq(log', 1, Len(log)) = log

\* C9 (amended): within one run the remote commands are issued one after
\* another, none before the previous result is known, in the fixed order of
\* the six system-information commands followed by probe, useradd, the four
\* privilege commands, the five key-install commands, verification and, on a
\* new session, whoami; no command and no connection attempt is repeated.
C9_SequentialFixedOrder == []C9_Order /\ [][C9_Step]_vars

C9_Witness ==
    /\ LogCmds = SystemInfoOrder \o ProvisioningOrder
    /\ Len(conns) = 2

(***************************************************************************)
(* C10                                                                     *)
(***************************************************************************)
\* C10: a run that went past the confirmation prompt emits no report while it
\* is in progress and exactly one report, the success report or one failure
\* report, by the time it has returned.
C10_ExactlyOneOutcome ==
    /\ ret = "none" => reports = <<>>
    /\ ret = "done" =>
           /\ Len(reports) = 1
           /\ reports[1].kind \in {"success", "error"}
           /\ reports[1].kind = "success" <=> saved

C10_Witness ==
    /\ Returned
    /\ Len(reports) = 1
    /\ reports[1].kind = "error"
    /\ "useradd" \in Issued

(***************************************************************************)
(* C11                                                                     *)
(***************************************************************************)
\* The step ends the run with a failure report after useradd was issued.
FatalAfterCreation ==
    /\ ret = "none"
    /\ ret' = "done"
    /\ UseraddCommand \in Issued
    /\ reports' # reports
    /\ reports'[Len(reports')].kind = "error"

\* C11: the step in which a run fails after user creation (an exec error in
\* the privilege-free part of setupVPSUser, the failed verification, the
\* failed confirmation login or a failed save) issues no command: the log
\* of remote commands and the set of remote accounts are what they were
\* before the failure was handled.
C11_NoCompensation ==
    [][FatalAfterCreation => (log' = log /\ remoteUsers' = remoteUsers)]_vars

C11_Witness ==
    /\ Returned
    /\ results.useradd = "ok"
    /\ results.verify = "nonzero"
    /\ LastCmd = VerifyCommand
    /\ username \in remoteUsers
    /\ reports =
           <<ErrorReport(Wrap(<<"Failed to verify SSH key setup">>))>>

(***************************************************************************)
(* C12                                                                     *)
(***************************************************************************)
\* The key path handed to createSSHConnection by the call about to be made.
KeyPathOfCall ==
    IF pc = "connect" THEN selectedHost.identityFile
    ELSE KeyPathOf(hostName, runs)

KeyNotFoundMessage(keyPath) == <<"Private key not found at: ", keyPath.name>>

\* createSSHConnection is called with a key path that names no file.
ConnectWithAbsentKey ==
    /\ pc \in {"connect", "settle"}
    /\ pc' # pc
    /\ KeyPathOfCall # NoFile
    /\ KeyPathOfCall \notin files

\* C12: a createSSHConnection call whose key path names no file makes no
\* connection attempt and fails with the key-not-found error that names the
\* path, which setupVPS reports as the run's failure.
C12_AbsentKeyNoAttempt ==
    [][ConnectWithAbsentKey =>
           /\ conns' = conns
           /\ provConn' = provConn /\ testConn' = testConn
           /\ \E prefix \in {<<>>, <<"Connection test failed: ">>} :
                  reports' = Append(reports,
                      ErrorReport(prefix \o KeyNotFoundMessage(KeyPathOfCall)))
           /\ ret' = "done"]_vars

C12_Witness ==
    /\ Returned
    /\ selectedHost.identityFile = IdRsa
    /\ IdRsa \notin files
    /\ conns = <<>>
    /\ provConn = "none"
    /\ reports = <<ErrorReport(KeyNotFoundMessage(IdRsa))>>

(***************************************************************************)
(* C13                                                                     *)
(***************************************************************************)
\* C13: executeSSHCommand settles nothing before the channel closes; once it
\* has closed there is exactly one result, which carries the exit code
\* (zero or not) and the text of all the stdout and stderr data received;
\* the only failure is the one of the command that could not be started.
C13_OneCompleteResult ==
    /\ chan.phase \in {"called", "open"} => chan.settled = <<>>
    /\ chan.phase = "rejected" => chan.settled = <<[kind |-> "error"]>>
    /\ chan.phase = "closed" =>
           /\ Len(chan.settled) = 1
           /\ chan.settled[1].kind = "result"
           /\ chan.settled[1].code \in ExitCodes
           /\ chan.settled[1].stdout = toString(chan.rawOut)
           /\ chan.settled[1].stderr = toString(chan.rawErr)

(***************************************************************************)
(* The configuration file as a reader sees it                              *)
(***************************************************************************)
TrimmedLine(i) == Trim(cfgFile.lines[i])

Directive(i) == TrimmedLine(i) # <<>> /\ Head(TrimmedLine(i)) # "#"

\* The lines that open a block.
HostLines == {i \in DOMAIN cfgFile.lines :
                  Directive(i) /\ HostMatch(TrimmedLine(i)) # <<>>}

AliasAt(i) == HostMatch(TrimmedLine(i))[1]

\* The lines of the block opened at line i.
BlockLines(i) ==
    LET later == {h \in HostLines : h > i} IN
    {j \in DOMAIN cfgFile.lines : j > i /\ \A h \in later : j < h}

\* The lines of the block opened at line i that set the property key.
Declares(i, key) ==
    {j \in BlockLines(i) :
         /\ Directive(j)
         /\ PropertyMatch(TrimmedLine(j)) # <<>>
         /\ toLowerCase(PropertyMatch(TrimmedLine(j))[1].key) = key}

\* The value the block opened at line i gives to key on its last such line.
LastValue(i, key) ==
    LET set == Declares(i, key)
        j == CHOOSE m \in set : \A n \in set : n <= m
    IN  PropertyMatch(TrimmedLine(j))[1].value

kHostname == <<"h", "o", "s", "t", "n", "a", "m", "e">>

kPort == <<"p", "o", "r", "t">>

kIdentityFile == <<"i", "d", "e", "n", "t", "i", "t", "y", "f", "i", "l", "e">>

Wildcard(alias) == \E k \in DOMAIN alias : alias[k] \in {"*", "?"}

\* The blocks with an alias free of wildcards and with a HostName.
KeptLines ==
    {i \in HostLines : ~Wildcard(AliasAt(i)) /\ Declares(i, kHostname) # {}}

RECURSIVE Ascending(_)
Ascending(S) ==
    IF S = {} THEN <<>>
    ELSE LET m == CHOOSE x \in S : \A y \in S : x <= y
         IN  <<m>> \o Ascending(S \ {m})

KeptInFileOrder == Ascending(KeptLines)

Aliases == [k \in DOMAIN parsed.hosts |-> parsed.hosts[k].host]

(***************************************************************************)
(* C14                                                                     *)
(***************************************************************************)
\* C14: no returned entry has an alias containing '*' or '?', and every
\* block whose alias has neither and which declares a HostName is returned
\* with that alias, whatever blocks surround it.
C14_NoWildcardAlias ==
    parsed.outcome = "returned" =>
        /\ \A k \in DOMAIN parsed.hosts : ~Wildcard(parsed.hosts[k].host)
        /\ \A i \in KeptLines :
               LET name == LastValue(i, kHostname) IN
               \E k \in DOMAIN parsed.hosts :
                   /\ parsed.hosts[k].host = AliasAt(i)
                   /\ parsed.hosts[k].hostname = name

C14_Witness ==
    /\ cfgFile.lines = BlockA \o BlockStar \o BlockD
    /\ Aliases = << <<"a">>, <<"d">> >>

(***************************************************************************)
(* C15                                                                     *)
(***************************************************************************)
\* C15: every returned entry has a hostname, and there are exactly as many
\* entries as there are wildcard-free blocks that declare a HostName: a
\* block without HostName adds none, wherever it stands in the file.
C15_HostNameRequired ==
    parsed.outcome = "returned" =>
        /\ \A k \in DOMAIN parsed.hosts : parsed.hosts[k].hostname # None
        /\ LET kept == KeptLines IN
           /\ Len(parsed.hosts) = Cardinality(kept)
           /\ \A k \in DOMAIN parsed.hosts :
                  \E i \in kept : parsed.hosts[k].host = AliasAt(i)

C15_Witness ==
    /\ cfgFile.lines = BlockB \o BlockA \o BlockB
    /\ Aliases = << <<"a">> >>

(***************************************************************************)
(* C16                                                                     *)
(***************************************************************************)
\* C16: the aliases of the returned entries are pairwise distinct.
C16_AliasesDistinct ==
    \A j, k \in DOMAIN parsed.hosts :
        j # k => parsed.hosts[j].host # parsed.hosts[k].host

(***************************************************************************)
(* C17                                                                     *)
(***************************************************************************)
\* C17: the returned entries are the retained blocks in the order of their
\* Host lines in the file.
C17_FileOrder ==
    parsed.outcome = "returned" =>
        LET kept == KeptInFileOrder
        IN  Aliases = [k \in DOMAIN kept |-> AliasAt(kept[k])]

C17_Witness ==
    /\ cfgFile.lines = BlockD \o BlockB \o BlockC
    /\ Aliases = << <<"d">>, <<"c">> >>

(***************************************************************************)
(* C18                                                                     *)
(***************************************************************************)
\* C18: a call of parseSSHConfig ends by returning a sequence, never by
\* throwing, and the sequence is empty when the file is missing or cannot
\* be read.
C18_NeverThrows ==
    /\ parsed.outcome \in {"none", "returned"}
    /\ (parsed.outcome = "returned"
            /\ cfgFile.state \in {"missing", "unreadable"}) =>
           parsed.hosts = <<>>

C18_Witness ==
    /\ cfgFile.state = "unreadable"
    /\ parsed = [outcome |-> "returned", hosts |-> <<>>]

(***************************************************************************)
(* C19                                                                     *)
(***************************************************************************)
AllDigits(s) == s # <<>> /\ \A k \in DOMAIN s : s[k] \in Digit

\* C19: every returned entry has an integer port: 22 when its block has no
\* Port line, the number written on the Port line otherwise.
C19_IntegerPort ==
    parsed.outcome = "returned" =>
        LET kept == KeptInFileOrder IN
        /\ Len(parsed.hosts) = Len(kept)
        /\ \A k \in DOMAIN parsed.hosts :
               LET ports == Declares(kept[k], kPort) IN
               /\ parsed.hosts[k].port # NaN
               /\ ports = {} => parsed.hosts[k].port = Num(22)
               /\ (ports # {} /\ AllDigits(LastValue(kept[k], kPort))) =>
                      parsed.hosts[k].port =
                          Num(Digits(LastValue(kept[k], kPort), 0))

(***************************************************************************)
(* C20                                                                     *)
(***************************************************************************)
\* The value without the quote at its start and the quote at its end, if
\* any, and with a leading '~' replaced by the home directory.
ExpectedPath(value) ==
    LET t == Trim(value)
        lo == IF t # <<>> /\ t[1] \in Quotes THEN 2 ELSE 1
        hi == IF Len(t) >= lo /\ t[Len(t)] \in Quotes
              THEN Len(t) - 1 ELSE Len(t)
        body == SubSeq(t, lo, hi)
    IN  IF body # <<>> /\ body[1] = "~"
        THEN Home \o SubSeq(body, 2, Len(body))
        ELSE body

QuotedTildeK == <<"\"", "~", "/", "k", "\"">>

C21_ConfirmedRunPersists ==
    (Returned /\ ConfirmedAsNewUser /\ selectedHost.user # Null) =>
        /\ saved
        /\ SucceededReported
        /\ HostData(selectedHost, hostName, username,
                    KeyPathOf(hostName, runs)) \in db
        /\ Cardinality({r \in db : r.name = hostName}) = 1

(***************************************************************************)
(* C22                                                                     *)
(***************************************************************************)
\* The run made a connection attempt.
ReachedRemotePhase == conns # <<>>

\* C22: a setup run that reached the remote phase and has returned left
\* exactly one connection-log row, of type setup, with the run's success
\* flag and, when the run failed, its error message.
C22_EveryAttemptLogged ==
    (Returned /\ ReachedRemotePhase) =>
        /\ Len(connLog) = 1
        /\ connLog[1].type = "setup"
        /\ connLog[1].success = saved
        /\ ~saved => connLog[1].error # <<>>

(***************************************************************************)
(* C23                                                                     *)
(***************************************************************************)
\* The private keys in local key storage that this run generated.
KeysOfRun ==
    {f \in files : f.dir = KeysDir.dir /\ f.name # "" /\ f.stamp = runs}

\* C23: a run that ended in success generated one key pair, no run
\* generates more than one, and a run that halted before the first
\* key-installation command (its key generation, if reached, having
\* returned) leaves no key of its own in local key storage.
C23_OneKeyPairPerSuccess ==
    /\ saved => (keyPair.outcome = "ok" /\ Cardinality(KeysOfRun) = 1)
    /\ Cardinality(KeysOfRun) <= 1
    /\ (/\ Returned
        /\ keyPair.outcome \in {"none", "ok"}
        /\ Issued \cap InstallCmds = {}) => KeysOfRun = {}

(***************************************************************************)
(* C24                                                                     *)
(***************************************************************************)
\* C24: when generateSSHKeyPair fails, at whichever of its steps, the run's
\* failure report carries the key-generation error with the underlying
\* message.
C24_KeygenErrorWrapped ==
    keyPair.outcome \notin {"none", "ok"} =>
        reports = <<ErrorReport(<<"Failed to generate SSH key: ",
                                  keyPair.outcome>>)>>

(***************************************************************************)
(* C25                                                                     *)
(***************************************************************************)
\* C25: whenever generateSSHKeyPair has returned a key pair, the private
\* key file has mode 600 and the public key file mode 644.
C25_KeyFileModes ==
    keyPair.outcome = "ok" =>
        /\ keyPair.priv = "600"
        /\ keyPair.pub = "644"
        /\ KeyPathOf(hostName, runs) \in files

C25_Witness ==
    /\ pc = "probe"
    /\ keyPair.outcome = "ok"
    /\ keyPair.priv = "600"

(***************************************************************************)
(* C26                                                                     *)
(***************************************************************************)
ConfirmationLogins == {i \in 1..Len(conns) : conns[i].sess = "test"}

\* C26: the confirmation login of a run goes to the host and port of the
\* run's provisioning session, with the private key generated in this run
\* (never the identity file of the host entry) and as the user the run
\* created.
C26_ConfirmationUsesNewIdentity ==
    \A i \in ConfirmationLogins :
        /\ conns[i].key = KeyPathOf(hostName, runs)
        /\ conns[i].key # selectedHost.identityFile
        /\ conns[i].key = [dir |-> KeysDir.dir, name |-> hostName,
                           stamp |-> runs]
        /\ conns[i].user = username
        /\ i > 1
        /\ conns[1].sess = "prov"
        /\ conns[i].host = conns[1].host
        /\ conns[i].port = conns[1].port
        /\ conns[1].key = selectedHost.identityFile

C26_Witness ==
    /\ testConn = "open"
    /\ ConfirmationLogins = {2}
    /\ conns[1].key = IdRsa
    /\ conns[2].user = Bob

(***************************************************************************)
(* C27                                                                     *)
(***************************************************************************)
\* [a-z_][a-z0-9_-]*
FirstChars == Lower \cup {"_"}
RestChars == Lower \cup Digit \cup {"_", "-"}
MatchesNamePattern(s) ==
    /\ s # <<>>
    /\ Head(s) \in FirstChars
    /\ {Tail(s)[i] : i \in DOMAIN Tail(s)} \subseteq RestChars

SetupVPSUserCommands == {i \in DOMAIN log : log[i].arg # <<>>}

\* C27: the name interpolated into a command that setupVPSUser issues is
\* the run's managed-user name, it is not empty and it matches
\* [a-z_][a-z0-9_-]*.
C27_CommandsUseValidatedName ==
    \A i \in SetupVPSUserCommands :
        /\ log[i].arg = username
        /\ MatchesNamePattern(log[i].arg)

C27_Witness ==
    /\ \E i \in SetupVPSUserCommands :
           log[i].cmd = "useradd" /\ log[i].arg = NotFoundName
    /\ MatchesNamePattern(NotFoundName)
    /\ \E u \in UsernameInputs : u # <<>> /\ ~MatchesNamePattern(u)

(***************************************************************************)
(* C28                                                                     *)
(***************************************************************************)
\* C28: when setupVPS has returned, whatever the outcome, neither the
\* provisioning session nor the confirmation session of the run is still
\* open, and no session of an operation that finished earlier is open when a
\* later one runs.
C28_SessionsClosedOnReturn ==
    /\ Returned => (provConn # "open" /\ testConn # "open")
    /\ leaked = 0

(***************************************************************************)
(* C30                                                                     *)
(***************************************************************************)
\* The places of the flow of control inside setupVPS and inside remoteAuth.
InSetup ==
    pc \in {"select", "confirm", "connect", "connecting", "keygen", "end",
            "settle", "testconnecting", "save"} \cup CommandSteps

InRemoteAuth ==
    pc \in {"auth_select", "auth_ssh", "auth_connecting", "auth_info",
            "auth_continue"}

\* C30: a step of setupVPS or of remoteAuth, whatever fails in it (the
\* connection, a command, the verification, the record store, the logging),
\* stays inside the operation or returns to the menu; the program ends only
\* by a step taken at the menu, the Exit choice, which reports nothing.
C30_OnlyExitEndsTheLoop ==
    [][/\ (InSetup \/ InRemoteAuth) =>
              \/ pc' = "menu"
              \/ InSetup /\ InSetup'
              \/ InRemoteAuth /\ InRemoteAuth'
       /\ pc' = "exited" =>
              (pc = "menu" /\ reports' = reports /\ connLog' = connLog)]_vars

\* remoteAuth came back to the menu after its logging call threw in the
\* inner catch.
C30_Witness ==
    /\ pc = "menu"
    /\ ret = "auth"
    /\ authOp.action = "test"
    /\ connLog = <<>>
    /\ Len(reports) = 2
    /\ reports[1] = ConnectionErrorReport(<<"connect error">>)
    /\ reports[2].msg = <<"Remote Auth Error: ">> \o StoreError

(***************************************************************************)
(* C29                                                                     *)
(***************************************************************************)
\* The operator confirmed the setup: the run is about to connect.
Confirmed == pc = "connect"

\* A command is in flight: conn.exec was called and the channel is open.
Waiting == inflight

\* C29: when connection attempts become ready or error and channels close,
\* a run that went past the confirmation prompt returns with its outcome;
\* and while a command is in flight the run takes no step of its own: the
\* only step is the delivery of the command's result, which issues nothing
\* and opens nothing.
C29_RunTerminates ==
    /\ Confirmed ~> Returned
    /\ [][Waiting => (~inflight' /\ log' = log /\ conns' = conns
                      /\ runs' = runs)]_vars

C29_Witness ==
    /\ Returned
    /\ saved
    /\ Len(conns) = 2
    /\ LastCmd = WhoamiCommand

====
